---- MODULE Spec2Model ----
(***************************************************************************)
(* The fetch wrappers of the Otechdo class (src/src/otechdo.ts): the retry *)
(* loops requestWithRetry, requestWithExponentialBackoff and               *)
(* retryOnSpecificErrors, the timeout-guarded requestWithTimeout and       *)
(* fetchWithTimeout, cancelableRequest, pollRequest, batchRequests and     *)
(* sequentialRequests, the plain request functions, and the event helpers  *)
(* once and debounce; Events.once of the web Events class and the system   *)
(* listeners of the desktop Events class.  The transport (fetch), the      *)
(* timers (setTimeout), the body parser (response.json) and the event      *)
(* dispatch of the DOM are the environment: every answer they can give is  *)
(* a nondeterministic choice.                                              *)
(***************************************************************************)
EXTENDS Integers, Sequences, FiniteSets, TLC

\* ---------------------------------------------------------------- bounds
\* Largest value of the retries argument that is explored (0 is included).
MaxRetries == 3
\* Number of timeout-guarded or cancelable requests that may be in flight together.
NumReq == 2
\* Largest number of cancel() calls made on one cancelable request.
MaxCancels == 2
\* Largest number of requests one pollRequest call is followed through.
MaxPolls == 3
\* Largest length of the list given to batchRequests / sequentialRequests.
MaxBatch == 3
\* Largest number of elements an Events instance is bound to.
MaxEls == 2
\* Largest number of dispatches that follow one registration with once.
MaxDispatch == 3
\* Largest number of events a debounced registration is followed through.
MaxEvents == 3

\* ---------------------------------------------------------------- inputs
\* The delay / baseDelay arguments explored (500 and 1000 are the defaults).
Delays == {0, 500, 1000}
\* The status codes the transport may answer with.
Statuses == {200, 404, 503}
\* The retryStatuses arguments explored ({502, 503, 504} is the default).
RetryStatusChoices == {{502, 503, 504}, {502, 503}, {}}
RetryOps == {"requestWithRetry", "requestWithExponentialBackoff", "retryOnSpecificErrors"}
TimeoutFns == {"requestWithTimeout", "fetchWithTimeout"}
\* The interval arguments of pollRequest explored.
Intervals == {0, 1000}
\* The parsed bodies the polled endpoint may answer with.
Bodies == {0, 1}
BatchOps == {"batchRequests", "sequentialRequests"}
\* The method fields of the request configurations explored.
Methods == {"GET", "PATCH"}
Reqs == 1..NumReq
\* The plain request functions.
ExecFns == {"getRequest", "postRequest", "putRequest", "deleteRequest", "requestWithHeaders"}
\* The method arguments of requestWithHeaders explored.
ExecMethods == {"GET", "POST"}
\* The data arguments explored: truthy or not.
ExecData == {"undefined", "object"}
\* The two implementations of once.
OnceApis == {"Events.once", "Otechdo.once"}
\* The system events and the callbacks given to addSystemEvent.
SysEvents == {"focus", "resize"}
Callbacks == {"cb1", "cb2"}

VARIABLES
    scenario,       \* which family of operations the caller exercises
    \* --- one call of a retry operation
    rop,            \* the operation called
    retries,        \* its retries argument
    delay,          \* its delay / baseDelay argument
    retryStatuses,  \* its retryStatuses argument
    attempt,        \* the loop variable
    rpc,            \* where the call is suspended
    trace,          \* what the call did so far: fetches, their answers, waits
    result,         \* how the call ended
    \* --- timeout-guarded and cancelable requests, one entry per request
    tfn,            \* the function called
    tpc,            \* where the call is suspended
    timer,          \* the setTimeout handle
    aborted,        \* controller.signal.aborted
    abortCalls,     \* number of controller.abort() invocations
    net,            \* the transport call
    resp,           \* the response received
    outcome,        \* how the call ended
    \* --- one call of pollRequest
    interval,       \* its interval argument
    pcond,          \* its condition argument: the bodies for which it returns true
    ppc,            \* where the call is suspended
    pcount,         \* number of getRequest calls made
    ptrace,         \* what the call did so far: requests, their answers, waits
    presult,        \* how the call ended
    \* --- one call of batchRequests or sequentialRequests
    bop,            \* the operation called
    breqs,          \* its requests argument: the method of each configuration
    bpc,            \* where the call is
    bitem,          \* per list item: the request function's promise
    border,         \* the items in the order in which their promises settled
    bvalues,        \* sequentialRequests' responses array
    bresult,        \* how the call ended
    \* --- one call of a plain request function
    xfn,            \* the function called
    xmethod,        \* the method it passes to fetch
    xdata,          \* its data argument
    xpc,            \* where the call is suspended
    xopts,          \* the options given to fetch
    xtrace,         \* what the call did so far
    xresult,        \* how the call ended
    \* --- one registration with once
    oapi,           \* Events.once or Otechdo.once
    oels,           \* the number of elements the instance is bound to
    opc,            \* whether once has been called
    olisteners,     \* the elements the one-time handler is registered on
    odispatches,    \* number of dispatches of the event so far
    oregAt,         \* number of dispatches that preceded the registration
    ocalled,        \* the dispatches at which the callback was invoked
    \* --- one desktop Events instance
    slisteners,     \* its listeners map: event -> callback
    wlisteners,     \* the (event, callback) pairs registered on window
    sremoved,       \* per event: removeSystemEvent was the last call for it
    slast,          \* the last step when it was a dispatch: event, callbacks invoked
    \* --- one registration with debounce
    dpc,            \* whether debounce has been called
    dtimeoutId,     \* the closure's timeoutId (0: undefined)
    dpending,       \* the timers that are pending, by id
    devents,        \* number of events dispatched so far
    dcalls          \* the handler's invocations: event received, events seen by then

retryVars == <<rop, retries, delay, retryStatuses, attempt, rpc, trace, result>>
timeoutVars == <<tfn, tpc, timer, aborted, abortCalls, net, resp, outcome>>
pollVars == <<interval, pcond, ppc, pcount, ptrace, presult>>
\* What the steps of one family leave alone: the state of the other families.
batchVars == <<bop, breqs, bpc, bitem, border, bvalues, bresult>>
execVars == <<xfn, xmethod, xdata, xpc, xopts, xtrace, xresult>>
onceVars == <<oapi, oels, opc, olisteners, odispatches, oregAt, ocalled>>
sysVars == <<slisteners, wlisteners, sremoved, slast>>
debounceVars == <<dpc, dtimeoutId, dpending, devents, dcalls>>
uiVars == <<onceVars, sysVars, debounceVars>>
notRetryVars == <<timeoutVars, pollVars, batchVars, execVars, uiVars>>
notTimeoutVars == <<retryVars, pollVars, batchVars, execVars, uiVars>>
notPollVars == <<retryVars, timeoutVars, batchVars, execVars, uiVars>>
notBatchVars == <<retryVars, timeoutVars, pollVars, execVars, uiVars>>
fetchVars == <<retryVars, timeoutVars, pollVars, batchVars>>
notExecVars == <<fetchVars, uiVars>>
notOnceVars == <<fetchVars, execVars, sysVars, debounceVars>>
notSysVars == <<fetchVars, execVars, onceVars, debounceVars>>
notDebounceVars == <<fetchVars, execVars, onceVars, sysVars>>
vars == <<scenario, rop, retries, delay, retryStatuses, attempt, rpc, trace, result,
          tfn, tpc, timer, aborted, abortCalls, net, resp, outcome,
          interval, pcond, ppc, pcount, ptrace, presult,
          bop, breqs, bpc, bitem, border, bvalues, bresult,
          xfn, xmethod, xdata, xpc, xopts, xtrace, xresult,
          oapi, oels, opc, olisteners, odispatches, oregAt, ocalled,
          slisteners, wlisteners, sremoved, slast,
          dpc, dtimeoutId, dpending, devents, dcalls>>

\* ------------------------------------------------------- shared helpers
\* Response.ok
IsOk(status) == status >= 200 /\ status <= 299

Ev(e, n) == [ev |-> e, n |-> n]
NoResult == [kind |-> "None", attempt |-> -1, cause |-> "none"]
Res(k, a, c) == [kind |-> k, attempt |-> a, cause |-> c]

\* return response.json(): the call settles as the body parser does
JsonResult(a, bodyOk) ==
    IF bodyOk THEN Res("Success", a, "none") ELSE Res("ParseError", a, "none")

\* ------------------------------------------------------ retry operations
\* A variant of LoopCond that admits one attempt more: attempt <= retries.
LoopCondInclusive(a, n) == a <= n

\* for (...; attempt < retries; ...)
LoopCond(a, n) == a < n

\* A variant of IsLastAttempt that is off by one: attempt === retries.
IsLastAttemptOffByOne(a, n) == a = n

\* if (attempt === retries - 1) throw ...
IsLastAttempt(a, n) == a = n - 1

\* setTimeout(resolve, delay)
FixedDelay(d, a) == d

\* A variant of BackoffDelay with * in place of **: baseDelay * 2 * attempt.
BackoffDelayProduct(d, a) == d * 2 * a

\* setTimeout(resolve, baseDelay * 2 ** attempt)
BackoffDelay(d, a) == d * (2 ^ a)

\* A variant of LinearDelay that does not grow.
LinearDelayFlat(a) == 1000

\* setTimeout(resolve, 1000 * (attempt + 1))
LinearDelay(a) == 1000 * (a + 1)

\* A variant of IsRetryable that retries on every error status.
IsRetryableAnyError(status, set) == status >= 400

\* retryStatuses.includes(response.status)
IsRetryable(status, set) == status \in set

\* The wait the catch block of the two try/catch loops starts.
CatchDelay(op, d, a) ==
    IF op = "requestWithRetry" THEN FixedDelay(d, a) ELSE BackoffDelay(d, a)

RetryIdle ==
    /\ rop = "none" /\ retries = 0 /\ delay = 0 /\ retryStatuses = {}
    /\ attempt = 0 /\ rpc = "idle" /\ trace = <<>> /\ result = NoResult

TimeoutIdle ==
    /\ tfn = [r \in Reqs |-> "none"]
    /\ tpc = [r \in Reqs |-> "created"]
    /\ timer = [r \in Reqs |-> "unset"]
    /\ aborted = [r \in Reqs |-> FALSE]
    /\ abortCalls = [r \in Reqs |-> 0]
    /\ net = [r \in Reqs |-> "idle"]
    /\ resp = [r \in Reqs |-> [status |-> 0, bodyOk |-> FALSE]]
    /\ outcome = [r \in Reqs |-> [kind |-> "None", status |-> 0]]

PollIdle ==
    /\ interval = 0 /\ pcond = {} /\ ppc = "idle" /\ pcount = 0
    /\ ptrace = <<>> /\ presult = [kind |-> "None", body |-> -1]

NoBatchResult == [kind |-> "None", err |-> "none", by |-> 0, values |-> <<>>]

BatchIdle ==
    /\ bop = "none" /\ breqs = <<>> /\ bpc = "idle" /\ bitem = <<>>
    /\ border = <<>> /\ bvalues = <<>> /\ bresult = NoBatchResult

NoOptions == [method |-> "none", contentType |-> "none", body |-> FALSE]
NoExecResult == [kind |-> "None", status |-> 0, body |-> -1]

ExecIdle ==
    /\ xfn = "none" /\ xmethod = "none" /\ xdata = "undefined" /\ xpc = "idle"
    /\ xopts = NoOptions /\ xtrace = <<>> /\ xresult = NoExecResult

OnceIdle ==
    /\ oapi = "none" /\ oels = 0 /\ opc = "idle" /\ olisteners = {}
    /\ odispatches = 0 /\ oregAt = 0 /\ ocalled = <<>>

NoDispatch == [ev |-> "none", called |-> {}]

\* A new Events instance: listeners = {}; nothing registered on window.
SysIdle ==
    /\ slisteners = [e \in SysEvents |-> "none"]
    /\ wlisteners = {}
    /\ sremoved = [e \in SysEvents |-> FALSE]
    /\ slast = NoDispatch

DebounceIdle ==
    /\ dpc = "idle" /\ dtimeoutId = 0 /\ dpending = {}
    /\ devents = 0 /\ dcalls = <<>>

\* Nothing of the event helpers is in use.
UiIdle == OnceIdle /\ SysIdle /\ DebounceIdle

\* A retry operation has just been called with some arguments.
RetryInit ==
    /\ scenario = "retry"
    /\ rop \in RetryOps
    /\ retries \in (-1)..MaxRetries
    /\ delay \in IF rop = "retryOnSpecificErrors" THEN {0} ELSE Delays
    /\ retryStatuses \in IF rop = "retryOnSpecificErrors" THEN RetryStatusChoices ELSE {{}}
    /\ attempt = 0
    /\ rpc = "loop"
    /\ trace = <<>>
    /\ result = NoResult
    /\ TimeoutIdle
    /\ PollIdle
    /\ BatchIdle
    /\ ExecIdle
    /\ UiIdle

\* Loop test passed: const response = await fetch(url, { method })
IssueFetch ==
    /\ scenario = "retry" /\ rpc = "loop"
    /\ LoopCond(attempt, retries)
    /\ trace' = Append(trace, Ev("fetch", attempt))
    /\ rpc' = "fetch"
    /\ UNCHANGED <<scenario, rop, retries, delay, retryStatuses, attempt, result>>
    /\ UNCHANGED notRetryVars

\* A variant of LoopExit that throws the retries-exhausted error.
LoopExitThrows ==
    /\ scenario = "retry" /\ rpc = "loop"
    /\ ~LoopCond(attempt, retries)
    /\ result' = Res("RetriesExhausted", attempt, "none")
    /\ rpc' = "done"
    /\ UNCHANGED <<scenario, rop, retries, delay, retryStatuses, attempt, trace>>
    /\ UNCHANGED notRetryVars

\* Loop test failed: the function body ends without a return statement.
LoopExit ==
    /\ scenario = "retry" /\ rpc = "loop"
    /\ ~LoopCond(attempt, retries)
    /\ result' = Res("Undefined", attempt, "none")
    /\ rpc' = "done"
    /\ UNCHANGED <<scenario, rop, retries, delay, retryStatuses, attempt, trace>>
    /\ UNCHANGED notRetryVars

\* A variant of FetchOk that forgets to return: the loop goes on.
FetchOkKeepsLooping ==
    /\ scenario = "retry" /\ rpc = "fetch"
    /\ \E status \in Statuses :
        /\ IsOk(status)
        /\ trace' = Append(trace, Ev("status", status))
    /\ attempt' = attempt + 1
    /\ rpc' = "loop"
    /\ UNCHANGED <<scenario, rop, retries, delay, retryStatuses, result>>
    /\ UNCHANGED notRetryVars

\* fetch resolved with a success status: if (response.ok) return response.json()
FetchOk ==
    /\ scenario = "retry" /\ rpc = "fetch"
    /\ \E status \in Statuses, bodyOk \in BOOLEAN :
        /\ IsOk(status)
        /\ trace' = Append(trace, Ev("status", status))
        /\ result' = JsonResult(attempt, bodyOk)
        /\ rpc' = "done"
    /\ UNCHANGED <<scenario, rop, retries, delay, retryStatuses, attempt>>
    /\ UNCHANGED notRetryVars

\* fetch resolved with a non-success status in the two try/catch loops:
\* nothing is thrown, the try block ends and the for loop increments attempt.
FetchNotOkFallsThrough ==
    /\ scenario = "retry" /\ rpc = "fetch"
    /\ rop \in {"requestWithRetry", "requestWithExponentialBackoff"}
    /\ \E status \in Statuses :
        /\ ~IsOk(status)
        /\ trace' = Append(trace, Ev("status", status))
    /\ attempt' = attempt + 1
    /\ rpc' = "loop"
    /\ UNCHANGED <<scenario, rop, retries, delay, retryStatuses, result>>
    /\ UNCHANGED notRetryVars

\* fetch rejected in the two try/catch loops: the catch block.
FetchThrowsCaught ==
    /\ scenario = "retry" /\ rpc = "fetch"
    /\ rop \in {"requestWithRetry", "requestWithExponentialBackoff"}
    /\ IF IsLastAttempt(attempt, retries)
       THEN /\ trace' = Append(trace, Ev("throw", attempt))
            /\ result' = Res("RetriesExhausted", attempt, "NetworkError")
            /\ rpc' = "done"
       ELSE /\ trace' = trace \o <<Ev("throw", attempt),
                                   Ev("wait", CatchDelay(rop, delay, attempt))>>
            /\ result' = result
            /\ rpc' = "wait"
    /\ UNCHANGED <<scenario, rop, retries, delay, retryStatuses, attempt>>
    /\ UNCHANGED notRetryVars

\* retryOnSpecificErrors, non-success status: throw unless the status is listed,
\* otherwise await the linear delay.
FetchNotOkSpecific ==
    /\ scenario = "retry" /\ rpc = "fetch"
    /\ rop = "retryOnSpecificErrors"
    /\ \E status \in Statuses :
        /\ ~IsOk(status)
        /\ IF ~IsRetryable(status, retryStatuses)
           THEN /\ trace' = Append(trace, Ev("status", status))
                /\ result' = Res("HttpStatusError", attempt, "none")
                /\ rpc' = "done"
           ELSE /\ trace' = trace \o <<Ev("status", status),
                                       Ev("wait", LinearDelay(attempt))>>
                /\ result' = result
                /\ rpc' = "wait"
    /\ UNCHANGED <<scenario, rop, retries, delay, retryStatuses, attempt>>
    /\ UNCHANGED notRetryVars

\* A variant of FetchThrowsSpecific that treats the fault as retryable.
FetchThrowsSpecificRetried ==
    /\ scenario = "retry" /\ rpc = "fetch"
    /\ rop = "retryOnSpecificErrors"
    /\ trace' = trace \o <<Ev("throw", attempt), Ev("wait", LinearDelay(attempt))>>
    /\ result' = result
    /\ rpc' = "wait"
    /\ UNCHANGED <<scenario, rop, retries, delay, retryStatuses, attempt>>
    /\ UNCHANGED notRetryVars

\* retryOnSpecificErrors has no try/catch: a rejected fetch rejects the call.
FetchThrowsSpecific ==
    /\ scenario = "retry" /\ rpc = "fetch"
    /\ rop = "retryOnSpecificErrors"
    /\ trace' = Append(trace, Ev("throw", attempt))
    /\ result' = Res("NetworkError", attempt, "none")
    /\ rpc' = "done"
    /\ UNCHANGED <<scenario, rop, retries, delay, retryStatuses, attempt>>
    /\ UNCHANGED notRetryVars

\* The awaited setTimeout promise resolves; the for loop increments attempt.
WaitElapses ==
    /\ scenario = "retry" /\ rpc = "wait"
    /\ attempt' = attempt + 1
    /\ rpc' = "loop"
    /\ UNCHANGED <<scenario, rop, retries, delay, retryStatuses, trace, result>>
    /\ UNCHANGED notRetryVars

RetryNext ==
    \/ IssueFetch
    \/ LoopExit
    \/ FetchOk
    \/ FetchNotOkFallsThrough
    \/ FetchThrowsCaught
    \/ FetchNotOkSpecific
    \/ FetchThrowsSpecific
    \/ WaitElapses

\* ------------------------------------------- properties of the retry loops
FetchIdx == {i \in DOMAIN trace : trace[i].ev = "fetch"}
WaitIdx == {i \in DOMAIN trace : trace[i].ev = "wait"}
StatusIdx == {i \in DOMAIN trace : trace[i].ev = "status"}
ThrowIdx == {i \in DOMAIN trace : trace[i].ev = "throw"}
\* Every transport call made so far was answered by a network fault.
AllThrew == StatusIdx = {}
\* No transport call made so far was answered with a success status.
NoneOk == \A i \in StatusIdx : ~IsOk(trace[i].n)
RetryDone == scenario = "retry" /\ rpc = "done"

\* C1: requestWithRetry(retries = n >= 1, delay = d) against a transport whose
\* every call throws makes exactly n fetches, with one wait of d between each two
\* consecutive fetches (n - 1 waits, none after the last fetch), and then rejects
\* with the "Request failed after n attempts" error.
C1_FixedDelayAllThrow ==
    (RetryDone /\ rop = "requestWithRetry" /\ retries >= 1 /\ AllThrew) =>
        /\ Cardinality(FetchIdx) = retries
        /\ Cardinality(WaitIdx) = retries - 1
        /\ \A i \in WaitIdx : trace[i].n = delay
        /\ \A i \in FetchIdx :
              trace[i].n >= 1 => (i > 1 /\ trace[i - 1] = Ev("wait", delay))
        /\ \A i \in WaitIdx : i < Len(trace) /\ trace[i + 1].ev = "fetch"
        /\ trace[Len(trace)] = Ev("throw", retries - 1)
        /\ result = Res("RetriesExhausted", retries - 1, "NetworkError")

C1_Witness ==
    /\ RetryDone /\ rop = "requestWithRetry" /\ retries = 3 /\ delay = 1000
    /\ AllThrew
    /\ Cardinality(WaitIdx) = 2
    /\ result.kind = "RetriesExhausted"

\* C2: requestWithRetry and requestWithExponentialBackoff, when all of the
\* retries >= 1 attempts were made and none had a success status (each threw or
\* answered a non-success status), end with the retries-exhausted error of the
\* last attempt; they never complete normally.
C2_ExhaustedAlwaysFails ==
    (/\ RetryDone
     /\ rop \in {"requestWithRetry", "requestWithExponentialBackoff"}
     /\ retries >= 1
     /\ Cardinality(FetchIdx) = retries
     /\ NoneOk) =>
        /\ result.kind = "RetriesExhausted"
        /\ result.attempt = retries - 1

\* C3: requestWithRetry: every attempt after the first is immediately preceded
\* by one wait of delay, whether the attempt before it threw or answered a
\* non-success status.
C3_WaitBeforeEveryRetry ==
    (scenario = "retry" /\ rop = "requestWithRetry") =>
        \A i \in FetchIdx :
            trace[i].n >= 1 =>
                /\ i > 2
                /\ trace[i - 1] = Ev("wait", delay)
                /\ trace[i - 2].ev # "wait"

\* C4: in the three retry operations, an attempt answered with a success status
\* is the last thing the call does: the call is over, it settles as that
\* attempt's response.json() does, and no fetch and no wait follows.
C4_ShortCircuitOnSuccess ==
    scenario = "retry" =>
        \A i \in StatusIdx :
            IsOk(trace[i].n) =>
                /\ i = Len(trace)
                /\ rpc = "done"
                /\ result.kind \in {"Success", "ParseError"}
                /\ trace[i - 1] = Ev("fetch", result.attempt)

C4_Witness ==
    /\ RetryDone /\ retries = 3
    /\ Cardinality(FetchIdx) = 2
    /\ trace[Len(trace)] = Ev("status", 200)
    /\ result = Res("Success", 1, "none")

C6_NonRetryableStatusIsTerminal ==
    (scenario = "retry" /\ rop = "retryOnSpecificErrors") =>
        \A i \in StatusIdx :
            (~IsOk(trace[i].n) /\ trace[i].n \notin retryStatuses) =>
                /\ i = Len(trace)
                /\ rpc = "done"
                /\ result.kind = "HttpStatusError"
                /\ trace[i - 1] = Ev("fetch", result.attempt)

C6_Witness ==
    /\ RetryDone /\ rop = "retryOnSpecificErrors"
    /\ retries = 3 /\ retryStatuses = {502, 503}
    /\ trace = <<Ev("fetch", 0), Ev("status", 404)>>
    /\ result.kind = "HttpStatusError"

\* C7: retryOnSpecificErrors: when each of the retries >= 1 attempts answered a
\* status listed in retryStatuses, the call ends with the retries-exhausted
\* error.
C7_AllRetryableExhausts ==
    (/\ RetryDone /\ rop = "retryOnSpecificErrors"
     /\ retries >= 1
     /\ Cardinality(FetchIdx) = retries
     /\ ThrowIdx = {}
     /\ \A i \in StatusIdx : ~IsOk(trace[i].n) /\ trace[i].n \in retryStatuses) =>
        result.kind = "RetriesExhausted"

\* ------------------------------------------------ timeout-guarded requests
Out(k, st) == [kind |-> k, status |-> st]

\* A variant of ClearTimer that leaves the timer running.
ClearTimerForgotten(t) == t

\* clearTimeout(id): cancels a pending timer, does nothing to any other
ClearTimer(t) == IF t = "pending" THEN "cleared" ELSE t

\* requestWithTimeout's catch block:
\* if (controller.signal.aborted) throw new Error("Request timed out"); throw error
CatchOutcome(isAborted, err) == IF isAborted THEN "TimeoutError" ELSE err

\* How a call that awaits fetch ends when fetch rejects with err:
\* requestWithTimeout catches, fetchWithTimeout lets the rejection through.
RejectedOutcome(fn, isAborted, err) ==
    IF fn = "requestWithTimeout" THEN CatchOutcome(isAborted, err) ELSE err

\* No timeout-guarded request has been issued yet.
TimeoutInit ==
    /\ scenario = "timeout"
    /\ RetryIdle
    /\ TimeoutIdle
    /\ PollIdle
    /\ BatchIdle
    /\ ExecIdle
    /\ UiIdle

\* The synchronous start of requestWithTimeout / fetchWithTimeout: a new
\* AbortController, setTimeout(() => controller.abort(), timeout), then fetch
\* with the controller's signal.
StartTimeoutCall(r) ==
    /\ scenario = "timeout" /\ tpc[r] = "created"
    /\ \E fn \in TimeoutFns : tfn' = [tfn EXCEPT ![r] = fn]
    /\ aborted' = [aborted EXCEPT ![r] = FALSE]
    /\ timer' = [timer EXCEPT ![r] = "pending"]
    /\ net' = [net EXCEPT ![r] = "inflight"]
    /\ tpc' = [tpc EXCEPT ![r] = "awaitFetch"]
    /\ UNCHANGED <<scenario, abortCalls, resp, outcome>>
    /\ UNCHANGED notTimeoutVars

\* fetch resolves with a response; the continuation clears the timer, then
\* fetchWithTimeout returns the response as it is (whatever its status) and
\* requestWithTimeout goes on to await response.json().
TransportResponds(r) ==
    /\ scenario = "timeout" /\ tpc[r] = "awaitFetch" /\ net[r] = "inflight"
    /\ tfn[r] \in TimeoutFns
    /\ \E status \in Statuses, bodyOk \in BOOLEAN :
        /\ resp' = [resp EXCEPT ![r] = [status |-> status, bodyOk |-> bodyOk]]
        /\ IF tfn[r] = "fetchWithTimeout"
           THEN /\ outcome' = [outcome EXCEPT ![r] = Out("Success", status)]
                /\ tpc' = [tpc EXCEPT ![r] = "done"]
           ELSE /\ outcome' = outcome
                /\ tpc' = [tpc EXCEPT ![r] = "awaitJson"]
    /\ net' = [net EXCEPT ![r] = "responded"]
    /\ timer' = [timer EXCEPT ![r] = ClearTimer(timer[r])]
    /\ UNCHANGED <<scenario, tfn, aborted, abortCalls>>
    /\ UNCHANGED notTimeoutVars

\* requestWithTimeout: return await response.json(), inside the try block.
JsonSettles(r) ==
    /\ scenario = "timeout" /\ tpc[r] = "awaitJson"
    /\ tfn[r] = "requestWithTimeout"
    /\ outcome' = [outcome EXCEPT ![r] =
          IF resp[r].bodyOk
          THEN Out("Success", resp[r].status)
          ELSE Out(CatchOutcome(aborted[r], "ParseError"), resp[r].status)]
    /\ tpc' = [tpc EXCEPT ![r] = "done"]
    /\ UNCHANGED <<scenario, tfn, timer, aborted, abortCalls, net, resp>>
    /\ UNCHANGED notTimeoutVars

\* fetch rejects with a network fault.  Neither function clears the timer on
\* this path: clearTimeout comes after the await that threw.
TransportFaults(r) ==
    /\ scenario = "timeout" /\ tpc[r] = "awaitFetch" /\ net[r] = "inflight"
    /\ tfn[r] \in TimeoutFns
    /\ net' = [net EXCEPT ![r] = "faulted"]
    /\ outcome' = [outcome EXCEPT ![r] =
          Out(RejectedOutcome(tfn[r], aborted[r], "NetworkError"), 0)]
    /\ tpc' = [tpc EXCEPT ![r] = "done"]
    /\ UNCHANGED <<scenario, tfn, timer, aborted, abortCalls, resp>>
    /\ UNCHANGED notTimeoutVars

\* The timer callback: () => controller.abort().  A fetch still in flight
\* rejects with the abort fault, and the call that awaits it ends.
TimerFires(r) ==
    /\ scenario = "timeout" /\ timer[r] = "pending"
    /\ timer' = [timer EXCEPT ![r] = "fired"]
    /\ aborted' = [aborted EXCEPT ![r] = TRUE]
    /\ abortCalls' = [abortCalls EXCEPT ![r] = @ + 1]
    /\ IF net[r] = "inflight"
       THEN /\ net' = [net EXCEPT ![r] = "aborted"]
            /\ outcome' = [outcome EXCEPT ![r] =
                  Out(RejectedOutcome(tfn[r], TRUE, "AbortError"), 0)]
            /\ tpc' = [tpc EXCEPT ![r] = "done"]
       ELSE UNCHANGED <<net, outcome, tpc>>
    /\ UNCHANGED <<scenario, tfn, resp>>
    /\ UNCHANGED notTimeoutVars

\* ------------------------------------------------------ cancelableRequest
\* Whether an abort of the controller still reaches the request: the fetch is
\* in flight, or its response body is still being read by response.json().
InFlight(r) == tpc[r] \in {"awaitFetch", "awaitJson"}

\* The synchronous body of cancelableRequest: a new AbortController and fetch
\* with its signal; the caller gets the promise and cancel.  No timer is set.
StartCancelable(r) ==
    /\ scenario = "timeout" /\ tpc[r] = "created"
    /\ tfn' = [tfn EXCEPT ![r] = "cancelableRequest"]
    /\ aborted' = [aborted EXCEPT ![r] = FALSE]
    /\ net' = [net EXCEPT ![r] = "inflight"]
    /\ tpc' = [tpc EXCEPT ![r] = "awaitFetch"]
    /\ UNCHANGED <<scenario, timer, abortCalls, resp, outcome>>
    /\ UNCHANGED notTimeoutVars

\* fetch resolves; the then callback throws on a non-success status and
\* otherwise returns response.json().
CancelableResponds(r) ==
    /\ scenario = "timeout" /\ tpc[r] = "awaitFetch" /\ net[r] = "inflight"
    /\ tfn[r] = "cancelableRequest"
    /\ \E status \in Statuses, bodyOk \in BOOLEAN :
        /\ resp' = [resp EXCEPT ![r] = [status |-> status, bodyOk |-> bodyOk]]
        /\ IF ~IsOk(status)
           THEN /\ outcome' = [outcome EXCEPT ![r] = Out("HttpStatusError", status)]
                /\ tpc' = [tpc EXCEPT ![r] = "done"]
           ELSE /\ outcome' = outcome
                /\ tpc' = [tpc EXCEPT ![r] = "awaitJson"]
    /\ net' = [net EXCEPT ![r] = "responded"]
    /\ UNCHANGED <<scenario, tfn, timer, aborted, abortCalls>>
    /\ UNCHANGED notTimeoutVars

\* The promise returned by response.json() settles, and with it the promise
\* handed to the caller.
CancelableJsonSettles(r) ==
    /\ scenario = "timeout" /\ tpc[r] = "awaitJson"
    /\ tfn[r] = "cancelableRequest"
    /\ outcome' = [outcome EXCEPT ![r] =
          Out(IF resp[r].bodyOk THEN "Success" ELSE "ParseError", resp[r].status)]
    /\ tpc' = [tpc EXCEPT ![r] = "done"]
    /\ UNCHANGED <<scenario, tfn, timer, aborted, abortCalls, net, resp>>
    /\ UNCHANGED notTimeoutVars

\* fetch rejects with a network fault; there is no catch in the chain.
CancelableFaults(r) ==
    /\ scenario = "timeout" /\ tpc[r] = "awaitFetch" /\ net[r] = "inflight"
    /\ tfn[r] = "cancelableRequest"
    /\ net' = [net EXCEPT ![r] = "faulted"]
    /\ outcome' = [outcome EXCEPT ![r] = Out("NetworkError", 0)]
    /\ tpc' = [tpc EXCEPT ![r] = "done"]
    /\ UNCHANGED <<scenario, tfn, timer, aborted, abortCalls, resp>>
    /\ UNCHANGED notTimeoutVars

\* A variant of Cancel whose promise chain swallows the abort fault.
CancelSwallowsAbort(r) ==
    /\ scenario = "timeout" /\ tfn[r] = "cancelableRequest"
    /\ abortCalls[r] < MaxCancels
    /\ abortCalls' = [abortCalls EXCEPT ![r] = @ + 1]
    /\ aborted' = [aborted EXCEPT ![r] = TRUE]
    /\ IF ~aborted[r] /\ InFlight(r)
       THEN /\ net' = [net EXCEPT ![r] = "aborted"]
            /\ outcome' = [outcome EXCEPT ![r] = Out("Undefined", 0)]
            /\ tpc' = [tpc EXCEPT ![r] = "done"]
       ELSE UNCHANGED <<net, outcome, tpc>>
    /\ UNCHANGED <<scenario, tfn, timer, resp>>
    /\ UNCHANGED notTimeoutVars

\* A variant of Cancel that rejects the promise whatever state the request is in.
CancelAlwaysRejects(r) ==
    /\ scenario = "timeout" /\ tfn[r] = "cancelableRequest"
    /\ abortCalls[r] < MaxCancels
    /\ abortCalls' = [abortCalls EXCEPT ![r] = @ + 1]
    /\ aborted' = [aborted EXCEPT ![r] = TRUE]
    /\ net' = [net EXCEPT ![r] = "aborted"]
    /\ outcome' = [outcome EXCEPT ![r] = Out("AbortError", 0)]
    /\ tpc' = [tpc EXCEPT ![r] = "done"]
    /\ UNCHANGED <<scenario, tfn, timer, resp>>
    /\ UNCHANGED notTimeoutVars

\* A variant of Cancel with one controller shared by all cancelable requests.
CancelSharedController(r) ==
    /\ scenario = "timeout" /\ tfn[r] = "cancelableRequest"
    /\ abortCalls[r] < MaxCancels
    /\ abortCalls' = [abortCalls EXCEPT ![r] = @ + 1]
    /\ aborted' = [q \in Reqs |-> aborted[q] \/ tfn[q] = "cancelableRequest"]
    /\ net' = [q \in Reqs |->
          IF tfn[q] = "cancelableRequest" /\ ~aborted[q] /\ InFlight(q)
          THEN "aborted" ELSE net[q]]
    /\ outcome' = [q \in Reqs |->
          IF tfn[q] = "cancelableRequest" /\ ~aborted[q] /\ InFlight(q)
          THEN Out("AbortError", 0) ELSE outcome[q]]
    /\ tpc' = [q \in Reqs |->
          IF tfn[q] = "cancelableRequest" /\ ~aborted[q] /\ InFlight(q)
          THEN "done" ELSE tpc[q]]
    /\ UNCHANGED <<scenario, tfn, timer, resp>>
    /\ UNCHANGED notTimeoutVars

\* cancel: () => controller.abort().  The first abort of the signal rejects a
\* fetch in flight, or the body read of response.json(), with the abort fault,
\* which rejects the promise.  On a settled request, and on a signal that is
\* already aborted, abort() has no effect.
Cancel(r) ==
    /\ scenario = "timeout" /\ tfn[r] = "cancelableRequest"
    /\ abortCalls[r] < MaxCancels
    /\ abortCalls' = [abortCalls EXCEPT ![r] = @ + 1]
    /\ aborted' = [aborted EXCEPT ![r] = TRUE]
    /\ IF ~aborted[r] /\ InFlight(r)
       THEN /\ net' = [net EXCEPT ![r] = "aborted"]
            /\ outcome' = [outcome EXCEPT ![r] = Out("AbortError", 0)]
            /\ tpc' = [tpc EXCEPT ![r] = "done"]
       ELSE UNCHANGED <<net, outcome, tpc>>
    /\ UNCHANGED <<scenario, tfn, timer, resp>>
    /\ UNCHANGED notTimeoutVars

TimeoutNext ==
    \E r \in Reqs :
        \/ StartTimeoutCall(r)
        \/ TransportResponds(r)
        \/ JsonSettles(r)
        \/ TransportFaults(r)
        \/ TimerFires(r)
        \/ StartCancelable(r)
        \/ CancelableResponds(r)
        \/ CancelableJsonSettles(r)
        \/ CancelableFaults(r)
        \/ Cancel(r)

\* ------------------------------- properties of the timeout-guarded requests
\* C8: a timeout-guarded call whose response arrived before the timer expired
\* ends with exactly one outcome out of {success, TimeoutError, NetworkError,
\* HttpStatusError}, and a response with a non-success status is reported as
\* HttpStatusError, not as success.
C8_NonOkStatusIsHttpStatusError ==
    \A r \in Reqs :
        (scenario = "timeout" /\ tfn[r] \in TimeoutFns /\ tpc[r] = "done" /\ net[r] = "responded") =>
            /\ outcome[r].kind \in
                  {"Success", "TimeoutError", "NetworkError", "HttpStatusError"}
            /\ ~IsOk(resp[r].status) => outcome[r].kind = "HttpStatusError"

\* C9: when the timer expires while the transport call is in flight, the
\* controller is aborted and the call ends with TimeoutError, not with the
\* transport's abort fault.
C9_TimerExpiryIsTimeoutError ==
    \A r \in Reqs :
        (scenario = "timeout" /\ tfn[r] \in TimeoutFns /\ timer[r] = "fired" /\ net[r] = "aborted") =>
            /\ aborted[r]
            /\ abortCalls[r] = 1
            /\ tpc[r] = "done"
            /\ outcome[r].kind = "TimeoutError"

\* C10: when the transport call settled before the timer, with a response or
\* with a network fault, the timer callback never runs afterwards and abort is
\* never invoked on the request's controller.
C10_TimerCancelledOnceSettled ==
    \A r \in Reqs :
        (scenario = "timeout" /\ tfn[r] \in TimeoutFns /\ tpc[r] = "done" /\ net[r] \in {"responded", "faulted"}) =>
            /\ timer[r] # "fired"
            /\ abortCalls[r] = 0
            /\ ~aborted[r]

\* --------------------------------------- properties of cancelableRequest
\* C11: a cancel() made while a cancelable request is in flight invokes the
\* controller's abort exactly once and ends the request with the abort fault
\* (the cancellation error): never with a success, never with the status error.
C11_CancelInFlightIsCanceled ==
    [][\A r \in Reqs :
          (/\ tfn[r] = "cancelableRequest"
           /\ outcome[r].kind = "None"
           /\ abortCalls'[r] # abortCalls[r]) =>
              /\ abortCalls'[r] = abortCalls[r] + 1
              /\ aborted'[r]
              /\ net'[r] = "aborted"
              /\ tpc'[r] = "done"
              /\ outcome'[r].kind = "AbortError"]_vars

C11_Witness ==
    \E r \in Reqs :
        /\ tfn[r] = "cancelableRequest"
        /\ resp[r].status = 200
        /\ abortCalls[r] = 1
        /\ outcome[r].kind = "AbortError"

\* C12: the end states of a request are absorbing and cancel() has an effect
\* only in flight: once a request has an outcome, no step (a cancel(), a late
\* timer, a late answer) changes the outcome or the state, and a cancel() on an
\* already aborted controller changes nothing.
C12_EndStatesAbsorbing ==
    [][\A r \in Reqs :
          /\ outcome[r].kind # "None" =>
                /\ outcome'[r] = outcome[r]
                /\ tpc[r] = "done" /\ tpc'[r] = "done"
                /\ net'[r] = net[r]
                /\ resp'[r] = resp[r]
          /\ (aborted[r] /\ abortCalls'[r] # abortCalls[r]) =>
                /\ aborted'[r]
                /\ outcome'[r] = outcome[r]
                /\ tpc'[r] = tpc[r]
                /\ net'[r] = net[r]]_vars

C12_Witness ==
    \E r \in Reqs :
        /\ tfn[r] = "cancelableRequest"
        /\ outcome[r].kind = "Success"
        /\ abortCalls[r] = 2

PRes(k, b) == [kind |-> k, body |-> b]

\* A variant of Condition that accepts every response.
ConditionAlwaysTrue(body, cond) == TRUE

\* condition(response)
Condition(body, cond) == body \in cond

\* pollRequest has just been called with some interval and condition.
PollInit ==
    /\ scenario = "poll"
    /\ interval \in Intervals
    /\ pcond \in SUBSET Bodies
    /\ ppc = "loop"
    /\ pcount = 0
    /\ ptrace = <<>>
    /\ presult = PRes("None", -1)
    /\ RetryIdle
    /\ TimeoutIdle
    /\ BatchIdle
    /\ ExecIdle
    /\ UiIdle

\* while (true) { const response = await this.getRequest(url);
\* getRequest calls fetch(url, { method: "GET" }).
PollIssue ==
    /\ scenario = "poll" /\ ppc = "loop"
    /\ pcount < MaxPolls
    /\ ptrace' = Append(ptrace, Ev("fetch", pcount))
    /\ pcount' = pcount + 1
    /\ ppc' = "fetch"
    /\ UNCHANGED <<scenario, interval, pcond, presult>>
    /\ UNCHANGED notPollVars

\* getRequest: fetch resolved with a success status; return response.json().
PollGetResponds ==
    /\ scenario = "poll" /\ ppc = "fetch"
    /\ \E status \in Statuses :
        /\ IsOk(status)
        /\ ptrace' = Append(ptrace, Ev("status", status))
    /\ ppc' = "json"
    /\ UNCHANGED <<scenario, interval, pcond, pcount, presult>>
    /\ UNCHANGED notPollVars

\* A variant of PollGetFails that takes a failure as "condition not yet met":
\* it waits interval and polls again.
PollGetFailsKeepsPolling ==
    /\ scenario = "poll" /\ ppc = "fetch"
    /\ \/ \E status \in Statuses :
            /\ ~IsOk(status)
            /\ ptrace' = ptrace \o <<Ev("status", status), Ev("wait", interval)>>
       \/ ptrace' = ptrace \o <<Ev("throw", pcount - 1), Ev("wait", interval)>>
    /\ ppc' = "wait"
    /\ UNCHANGED <<scenario, interval, pcond, pcount, presult>>
    /\ UNCHANGED notPollVars

\* getRequest throws: fetch rejected, or the status is not a success
\* (throw new Error("GET request failed: ...")).  pollRequest awaits it outside
\* any try/catch, so the rejection is the end of the poll.
PollGetFails ==
    /\ scenario = "poll" /\ ppc = "fetch"
    /\ \/ \E status \in Statuses :
            /\ ~IsOk(status)
            /\ ptrace' = Append(ptrace, Ev("status", status))
            /\ presult' = PRes("HttpStatusError", -1)
       \/ /\ ptrace' = Append(ptrace, Ev("throw", pcount - 1))
          /\ presult' = PRes("NetworkError", -1)
    /\ ppc' = "done"
    /\ UNCHANGED <<scenario, interval, pcond, pcount>>
    /\ UNCHANGED notPollVars

\* getRequest's response.json() rejects: the body does not parse.
PollBodyFails ==
    /\ scenario = "poll" /\ ppc = "json"
    /\ ptrace' = Append(ptrace, Ev("parsefail", pcount - 1))
    /\ presult' = PRes("ParseError", -1)
    /\ ppc' = "done"
    /\ UNCHANGED <<scenario, interval, pcond, pcount>>
    /\ UNCHANGED notPollVars

\* A variant of PollBody that starts the next request without waiting.
PollBodyNoWait ==
    /\ scenario = "poll" /\ ppc = "json"
    /\ \E body \in Bodies :
        IF Condition(body, pcond)
        THEN /\ ptrace' = Append(ptrace, Ev("body", body))
             /\ presult' = PRes("Success", body)
             /\ ppc' = "done"
        ELSE /\ ptrace' = Append(ptrace, Ev("body", body))
             /\ presult' = presult
             /\ ppc' = "loop"
    /\ UNCHANGED <<scenario, interval, pcond, pcount>>
    /\ UNCHANGED notPollVars

\* getRequest resolves with the parsed body:
\* if (condition(response)) return response;
\* await new Promise(resolve => setTimeout(resolve, interval));
PollBody ==
    /\ scenario = "poll" /\ ppc = "json"
    /\ \E body \in Bodies :
        IF Condition(body, pcond)
        THEN /\ ptrace' = Append(ptrace, Ev("body", body))
             /\ presult' = PRes("Success", body)
             /\ ppc' = "done"
        ELSE /\ ptrace' = ptrace \o <<Ev("body", body), Ev("wait", interval)>>
             /\ presult' = presult
             /\ ppc' = "wait"
    /\ UNCHANGED <<scenario, interval, pcond, pcount>>
    /\ UNCHANGED notPollVars

\* The awaited setTimeout promise resolves: next iteration of while (true).
PollWaitElapses ==
    /\ scenario = "poll" /\ ppc = "wait"
    /\ ppc' = "loop"
    /\ UNCHANGED <<scenario, interval, pcond, pcount, ptrace, presult>>
    /\ UNCHANGED notPollVars

PollNext ==
    \/ PollIssue
    \/ PollGetResponds
    \/ PollGetFails
    \/ PollBodyFails
    \/ PollBody
    \/ PollWaitElapses

\* ----------------------------------------------- properties of pollRequest
PFetchIdx == {i \in DOMAIN ptrace : ptrace[i].ev = "fetch"}
PBodyIdx == {i \in DOMAIN ptrace : ptrace[i].ev = "body"}
\* The events that answer a request: a status or a network fault.
PAnswerIdx == {i \in DOMAIN ptrace : ptrace[i].ev \in {"status", "throw"}}
\* The events that are a failure of getRequest.
PFailIdx == {i \in DOMAIN ptrace :
                \/ ptrace[i].ev \in {"throw", "parsefail"}
                \/ ptrace[i].ev = "status" /\ ~IsOk(ptrace[i].n)}

\* C14: the value pollRequest returns is the first response, in issue order,
\* for which the condition is true: every earlier response failed the
\* condition, and a response that satisfies it is the last event of the call
\* (no request and no wait follows it).
C14_ReturnsFirstSatisfying ==
    scenario = "poll" =>
        /\ \A i \in PBodyIdx :
              (ptrace[i].n \in pcond) =>
                  /\ i = Len(ptrace)
                  /\ ppc = "done"
                  /\ presult = PRes("Success", ptrace[i].n)
        /\ presult.kind = "Success" =>
              /\ ptrace[Len(ptrace)] = Ev("body", presult.body)
              /\ presult.body \in pcond
              /\ \A i \in PBodyIdx : i < Len(ptrace) => ptrace[i].n \notin pcond

C14_Witness ==
    /\ scenario = "poll" /\ ppc = "done"
    /\ pcond = {1}
    /\ presult = PRes("Success", 1)
    /\ Cardinality(PFetchIdx) = 3
    /\ \A i \in PBodyIdx : i < Len(ptrace) => ptrace[i].n = 0

\* C15 as stated: a transport failure does not end the poll; the poll ends
\* only by returning a response that satisfies the condition.
C15_PollEndsOnlyBySuccess ==
    (scenario = "poll" /\ ppc = "done") =>
        /\ presult.kind = "Success"
        /\ presult.body \in pcond

\* C15 as amended: a failure of getRequest during polling (a thrown network
\* fault, a non-success status, or a body that does not parse) ends the poll
\* at once with that failure: no wait is started and no further request is
\* issued.  The poll ends either by returning a response that satisfies the
\* condition or by rejecting with the first failure.
C15_FailureEndsPoll ==
    scenario = "poll" =>
        /\ \A i \in PFailIdx :
              /\ i = Len(ptrace)
              /\ ppc = "done"
              /\ presult.kind =
                    (IF ptrace[i].ev = "throw" THEN "NetworkError"
                     ELSE IF ptrace[i].ev = "parsefail" THEN "ParseError"
                     ELSE "HttpStatusError")
        /\ ppc = "done" =>
              \/ presult.kind = "Success" /\ presult.body \in pcond
              \/ presult.kind \in {"NetworkError", "HttpStatusError", "ParseError"}
                    /\ Len(ptrace) \in PFailIdx

C15_Witness ==
    /\ scenario = "poll" /\ ppc = "done"
    /\ Cardinality(PFetchIdx) = 2
    /\ ptrace[Len(ptrace)] = Ev("status", 503)
    /\ presult.kind = "HttpStatusError"

\* C16: within one pollRequest call at most one request is in flight, and
\* request i+1 is issued only after request i was answered, its response
\* failed the condition, and one wait of interval followed.
C16_PollIsSerial ==
    scenario = "poll" =>
        /\ Cardinality(PFetchIdx) - Cardinality(PAnswerIdx) \in {0, 1}
        /\ \A i \in PFetchIdx :
              ptrace[i].n >= 1 =>
                  /\ i > 4
                  /\ ptrace[i - 1] = Ev("wait", interval)
                  /\ ptrace[i - 2].ev = "body" /\ ptrace[i - 2].n \notin pcond
                  /\ ptrace[i - 3].ev = "status" /\ IsOk(ptrace[i - 3].n)
                  /\ ptrace[i - 4] = Ev("fetch", ptrace[i].n - 1)

C16_Witness ==
    /\ scenario = "poll" /\ interval = 1000
    /\ Cardinality(PFetchIdx) = 3
    /\ ppc = "fetch"

\* --------------------------------------- batchRequests, sequentialRequests
Items == 1..Len(breqs)

\* The request function the method field selects:
\* method === "GET" ? getRequest : method === "POST" ? postRequest
\*   : method === "PUT" ? putRequest : deleteRequest
Dispatch(method) ==
    IF method = "GET" THEN "getRequest"
    ELSE IF method = "POST" THEN "postRequest"
    ELSE IF method = "PUT" THEN "putRequest"
    ELSE "deleteRequest"

NotIssued == [st |-> "pending", call |-> "none", err |-> "none", val |-> 0]

\* Calling the request function of item i: it calls fetch at once and returns
\* its promise.
Issue(items, i) ==
    [items EXCEPT ![i] = [st |-> "inflight", call |-> Dispatch(breqs[i]),
                          err |-> "none", val |-> 0]]

\* A variant of AllValues that lists the values in the order of completion.
ValuesInCompletionOrder(items, order) ==
    [k \in DOMAIN items |-> items[order[k]].val]

\* The value of Promise.all(promises): the promises' values by position.
AllValues(items, order) ==
    [k \in DOMAIN items |-> items[k].val]

\* batchRequests or sequentialRequests is about to be called with some list.
BatchInit ==
    /\ scenario = "batch"
    /\ bop \in BatchOps
    /\ \E n \in 0..MaxBatch : breqs \in [1..n -> Methods]
    /\ bpc = "created"
    /\ bitem = [i \in Items |-> NotIssued]
    /\ border = <<>>
    /\ bvalues = <<>>
    /\ bresult = NoBatchResult
    /\ RetryIdle
    /\ TimeoutIdle
    /\ PollIdle
    /\ ExecIdle
    /\ UiIdle

\* A variant of BatchStart that calls only the first request function.
BatchStartFirstOnly ==
    /\ scenario = "batch" /\ bop = "batchRequests" /\ bpc = "created"
    /\ IF Len(breqs) = 0
       THEN /\ bresult' = [NoBatchResult EXCEPT !.kind = "Fulfilled"]
            /\ bpc' = "done"
            /\ bitem' = bitem
       ELSE /\ bresult' = bresult
            /\ bpc' = "running"
            /\ bitem' = Issue(bitem, 1)
    /\ UNCHANGED <<scenario, bop, breqs, border, bvalues>>
    /\ UNCHANGED notBatchVars

\* batchRequests: requests.map(...) calls the request function of every item,
\* one after the other without awaiting, then Promise.all(promises).
BatchStart ==
    /\ scenario = "batch" /\ bop = "batchRequests" /\ bpc = "created"
    /\ bitem' = [i \in Items |-> Issue(bitem, i)[i]]
    /\ IF Len(breqs) = 0
       THEN /\ bresult' = [NoBatchResult EXCEPT !.kind = "Fulfilled"]
            /\ bpc' = "done"
       ELSE /\ bresult' = bresult
            /\ bpc' = "running"
    /\ UNCHANGED <<scenario, bop, breqs, border, bvalues>>
    /\ UNCHANGED notBatchVars

\* A variant of SeqStart that calls every request function at once.
SeqStartAll ==
    /\ scenario = "batch" /\ bop = "sequentialRequests" /\ bpc = "created"
    /\ bitem' = [i \in Items |-> Issue(bitem, i)[i]]
    /\ IF Len(breqs) = 0
       THEN /\ bresult' = [NoBatchResult EXCEPT !.kind = "Fulfilled"]
            /\ bpc' = "done"
       ELSE /\ bresult' = bresult
            /\ bpc' = "running"
    /\ UNCHANGED <<scenario, bop, breqs, border, bvalues>>
    /\ UNCHANGED notBatchVars

\* sequentialRequests: responses = []; the for loop awaits the request function
\* of the first item, or returns responses when the list is empty.
SeqStart ==
    /\ scenario = "batch" /\ bop = "sequentialRequests" /\ bpc = "created"
    /\ IF Len(breqs) = 0
       THEN /\ bresult' = [NoBatchResult EXCEPT !.kind = "Fulfilled"]
            /\ bpc' = "done"
            /\ bitem' = bitem
       ELSE /\ bresult' = bresult
            /\ bpc' = "running"
            /\ bitem' = Issue(bitem, 1)
    /\ UNCHANGED <<scenario, bop, breqs, border, bvalues>>
    /\ UNCHANGED notBatchVars

\* A variant of Reject after which sequentialRequests goes on to the next item.
RejectContinues(i, err) ==
    /\ bitem' = IF bop = "sequentialRequests" /\ i < Len(breqs)
                THEN Issue([bitem EXCEPT ![i].st = "rejected", ![i].err = err], i + 1)
                ELSE [bitem EXCEPT ![i].st = "rejected", ![i].err = err]
    /\ border' = Append(border, i)
    /\ IF bresult.kind = "None"
       THEN /\ bresult' = [kind |-> "Rejected", err |-> err, by |-> i, values |-> <<>>]
            /\ bpc' = "done"
       ELSE UNCHANGED <<bresult, bpc>>
    /\ UNCHANGED bvalues

\* The promise of item i rejects with err.  Promise.all rejects with the first
\* rejection without waiting for the other promises; in sequentialRequests the
\* await throws, nothing catches it, and the call rejects.
Reject(i, err) ==
    /\ bitem' = [bitem EXCEPT ![i].st = "rejected", ![i].err = err]
    /\ border' = Append(border, i)
    /\ IF bresult.kind = "None"
       THEN /\ bresult' = [kind |-> "Rejected", err |-> err, by |-> i, values |-> <<>>]
            /\ bpc' = "done"
       ELSE UNCHANGED <<bresult, bpc>>
    /\ UNCHANGED bvalues

\* The promise of item i fulfils with the parsed body of the response to the
\* request of item i.  Promise.all fulfils once every promise has;
\* sequentialRequests pushes the response, then awaits the next item's request
\* function or returns responses.
Fulfil(i) ==
    LET items1 == [bitem EXCEPT ![i].st = "fulfilled", ![i].val = i]
        order1 == Append(border, i)
    IN  /\ border' = order1
        /\ IF bop = "batchRequests"
           THEN /\ bitem' = items1
                /\ bvalues' = bvalues
                /\ IF bresult.kind = "None" /\ \A j \in Items : items1[j].st = "fulfilled"
                   THEN /\ bresult' = [kind |-> "Fulfilled", err |-> "none", by |-> 0,
                                       values |-> AllValues(items1, order1)]
                        /\ bpc' = "done"
                   ELSE UNCHANGED <<bresult, bpc>>
           ELSE /\ bvalues' = Append(bvalues, items1[i].val)
                /\ IF i = Len(breqs)
                   THEN /\ bitem' = items1
                        /\ bresult' = [kind |-> "Fulfilled", err |-> "none", by |-> 0,
                                       values |-> Append(bvalues, items1[i].val)]
                        /\ bpc' = "done"
                   ELSE /\ bitem' = Issue(items1, i + 1)
                        /\ UNCHANGED <<bresult, bpc>>

\* The request function of item i: fetch resolved.
\* if (!response.ok) throw new Error(...); return response.json();
ItemResponds(i) ==
    /\ scenario = "batch" /\ bitem[i].st = "inflight"
    /\ \E status \in Statuses :
        IF IsOk(status)
        THEN /\ bitem' = [bitem EXCEPT ![i].st = "parsing"]
             /\ UNCHANGED <<border, bvalues, bresult, bpc>>
        ELSE Reject(i, "HttpStatusError")
    /\ UNCHANGED <<scenario, bop, breqs>>
    /\ UNCHANGED notBatchVars

\* The request function of item i: fetch rejected with a network fault.
ItemFaults(i) ==
    /\ scenario = "batch" /\ bitem[i].st = "inflight"
    /\ Reject(i, "NetworkError")
    /\ UNCHANGED <<scenario, bop, breqs>>
    /\ UNCHANGED notBatchVars

\* The request function of item i: response.json() rejected.
ItemBodyFails(i) ==
    /\ scenario = "batch" /\ bitem[i].st = "parsing"
    /\ Reject(i, "ParseError")
    /\ UNCHANGED <<scenario, bop, breqs>>
    /\ UNCHANGED notBatchVars

\* The request function of item i: response.json() resolved.
ItemBodyParsed(i) ==
    /\ scenario = "batch" /\ bitem[i].st = "parsing"
    /\ Fulfil(i)
    /\ UNCHANGED <<scenario, bop, breqs>>
    /\ UNCHANGED notBatchVars

BatchNext ==
    \/ BatchStart
    \/ SeqStart
    \/ \E i \in Items :
        \/ ItemResponds(i)
        \/ ItemFaults(i)
        \/ ItemBodyFails(i)
        \/ ItemBodyParsed(i)

\* ------------------------ properties of batchRequests / sequentialRequests
Settled(i) == bitem[i].st \in {"fulfilled", "rejected"}
Running(i) == bitem[i].st \in {"inflight", "parsing"}
IsBatch == scenario = "batch" /\ bop = "batchRequests"
IsSeq == scenario = "batch" /\ bop = "sequentialRequests"

\* C17: batchRequests: whatever the order in which the transport calls
\* complete, when all items succeed the call returns a list of the input's
\* length whose i-th element is the response to the i-th request.
C17_BatchKeepsInputOrder ==
    IsBatch =>
        /\ (bpc # "created" /\ \A i \in Items : bitem[i].st = "fulfilled") =>
              bresult.kind = "Fulfilled"
        /\ bresult.kind = "Fulfilled" =>
              /\ Len(bresult.values) = Len(breqs)
              /\ \A i \in Items : bitem[i].st = "fulfilled" /\ bresult.values[i] = i

C17_Witness ==
    /\ IsBatch /\ Len(breqs) = 3
    /\ border = <<3, 1, 2>>
    /\ bresult.kind = "Fulfilled"
    /\ bresult.values = <<1, 2, 3>>

\* C18: batchRequests: when some items fail and others succeed, the call still
\* returns one result per item in input order, and it produces its result only
\* once all items have completed.
C18_BatchCollectsAllResults ==
    (/\ IsBatch
     /\ \E i \in Items : bitem[i].st = "rejected"
     /\ \E i \in Items : bitem[i].st = "fulfilled") =>
        /\ bresult.kind # "None" =>
              /\ \A i \in Items : Settled(i)
              /\ bresult.kind = "Fulfilled"
              /\ Len(bresult.values) = Len(breqs)
        /\ (\A i \in Items : Settled(i)) => bresult.kind = "Fulfilled"

\* C19: batchRequests: the transport call of every item is issued before the
\* operation suspends on any of them: from the moment the call has started,
\* no item is waiting to be issued, whatever the state of the other items.
C19_BatchIssuesAllAtOnce ==
    (IsBatch /\ bpc # "created") =>
        \A i \in Items : bitem[i].st # "pending" /\ bitem[i].call = Dispatch(breqs[i])

C19_Witness ==
    /\ IsBatch /\ Len(breqs) = 3 /\ bpc = "running"
    /\ \A i \in Items : bitem[i].st = "inflight"

\* C20: sequentialRequests: at most one transport call of the list is in
\* flight at any time, the call for item i+1 is issued only after the call for
\* item i has fully completed, and on full success the results are in input
\* order.
C20_SequentialIsSerial ==
    IsSeq =>
        /\ Cardinality({i \in Items : Running(i)}) <= 1
        /\ \A i \in Items :
              (i > 1 /\ bitem[i].st # "pending") => Settled(i - 1)
        /\ bresult.kind = "Fulfilled" =>
              /\ Len(bresult.values) = Len(breqs)
              /\ \A i \in Items : bitem[i].st = "fulfilled" /\ bresult.values[i] = i

C20_Witness ==
    /\ IsSeq /\ Len(breqs) = 3
    /\ bresult.kind = "Fulfilled"
    /\ bresult.values = <<1, 2, 3>>
    /\ border = <<1, 2, 3>>

\* C21: sequentialRequests: when the request of item i fails, the call rejects
\* with that failure in the same step, no request is ever issued for an item
\* after i, and the responses collected before i are not part of the result.
C21_SequentialStopsAtFirstFailure ==
    IsSeq =>
        \A i \in Items :
            bitem[i].st = "rejected" =>
                /\ bpc = "done"
                /\ bresult = [kind |-> "Rejected", err |-> bitem[i].err, by |-> i,
                              values |-> <<>>]
                /\ \A j \in Items : j > i => bitem[j] = NotIssued
                /\ \A j \in Items : j < i => bitem[j].st = "fulfilled"

C21_Witness ==
    /\ IsSeq /\ Len(breqs) = 3
    /\ bitem[2].st = "rejected" /\ bitem[2].err = "HttpStatusError"
    /\ bvalues = <<1>>
    /\ bresult.kind = "Rejected" /\ bresult.values = <<>>
    /\ bitem[3] = NotIssued

\* ----------------------------------- further properties of the retry loops
\* An attempt was answered by a failure: a thrown fault or a non-success status.
FailedAt(i) ==
    \/ trace[i].ev = "throw"
    \/ trace[i].ev = "status" /\ ~IsOk(trace[i].n)

\* C25: in the three retry operations, for a retries argument that is a count
\* (>= 0): at every moment the number of fetches issued is at most retries, at
\* most one of them is unanswered, and the fetch of attempt k+1 is issued only
\* after the fetch of attempt k was answered by a failure.
C25_AttemptsBoundedAndSerial ==
    (scenario = "retry" /\ retries >= 0) =>
        /\ Cardinality(FetchIdx) <= retries
        /\ Cardinality(FetchIdx) - Cardinality(StatusIdx \cup ThrowIdx) \in {0, 1}
        /\ (rpc = "fetch") <=>
              (Cardinality(FetchIdx) - Cardinality(StatusIdx \cup ThrowIdx) = 1)
        /\ \A i \in FetchIdx :
              /\ trace[i].n = Cardinality({j \in FetchIdx : j < i})
              /\ trace[i].n >= 1 =>
                    \E j \in FetchIdx :
                        /\ j + 1 < i
                        /\ trace[j].n = trace[i].n - 1
                        /\ FailedAt(j + 1)

C25_Witness ==
    /\ scenario = "retry" /\ rop = "requestWithExponentialBackoff"
    /\ retries = 3 /\ rpc = "fetch"
    /\ Cardinality(FetchIdx) = 3
    /\ trace[2].ev = "throw" /\ trace[5].ev = "status"

\* C26: retryOnSpecificErrors: a fetch that throws is the last thing the call
\* does: the call rejects with that fault in the same step, without a wait and
\* without another fetch, whatever retries and retryStatuses are; every fetch
\* after the first follows a response whose status is listed in retryStatuses.
C26_NetworkFaultNotRetried ==
    (scenario = "retry" /\ rop = "retryOnSpecificErrors") =>
        /\ \A i \in ThrowIdx :
              /\ i = Len(trace)
              /\ rpc = "done"
              /\ result = Res("NetworkError", trace[i].n, "none")
              /\ trace[i - 1] = Ev("fetch", trace[i].n)
        /\ \A i \in FetchIdx :
              trace[i].n >= 1 =>
                  /\ i > 3
                  /\ trace[i - 1].ev = "wait"
                  /\ trace[i - 2].ev = "status"
                  /\ trace[i - 2].n \in retryStatuses

C26_Witness ==
    /\ RetryDone /\ rop = "retryOnSpecificErrors"
    /\ retries = 3 /\ retryStatuses = {502, 503, 504}
    /\ trace = <<Ev("fetch", 0), Ev("status", 503), Ev("wait", 1000),
                 Ev("fetch", 1), Ev("throw", 1)>>
    /\ result = Res("NetworkError", 1, "none")

\* C27: retryOnSpecificErrors: the answer of attempt k (counted from 0) with a
\* status listed in retryStatuses is immediately followed by one wait of
\* 1000 * (k + 1) ms, also when k is the last attempt the loop permits; the
\* call ends only after that wait.
C27_LinearWaitAfterEveryRetryable ==
    (scenario = "retry" /\ rop = "retryOnSpecificErrors") =>
        /\ \A i \in StatusIdx :
              (~IsOk(trace[i].n) /\ trace[i].n \in retryStatuses) =>
                  /\ i < Len(trace)
                  /\ trace[i - 1].ev = "fetch"
                  /\ trace[i + 1] = Ev("wait", 1000 * (trace[i - 1].n + 1))
        /\ \A i \in WaitIdx :
              /\ trace[i - 1].ev = "status"
              /\ trace[i - 1].n \in retryStatuses
              /\ i = Len(trace) => rpc \in {"wait", "loop", "done"}
        /\ (rpc = "done" /\ result.kind = "Undefined" /\ retries >= 1) =>
              trace[Len(trace)] = Ev("wait", 1000 * retries)

C27_Witness ==
    /\ RetryDone /\ rop = "retryOnSpecificErrors"
    /\ retries = 2 /\ retryStatuses = {502, 503}
    /\ trace = <<Ev("fetch", 0), Ev("status", 503), Ev("wait", 1000),
                 Ev("fetch", 1), Ev("status", 503), Ev("wait", 2000)>>
    /\ result.kind = "Undefined"

\* C28: requestWithTimeout ends with 'Request timed out' only when the timer
\* fired and aborted the controller while the fetch was still in flight; a
\* network fault of the fetch is rethrown as it is; once the response has
\* arrived the timer is cleared and the controller is never aborted, so a body
\* that does not parse ends the call with the parser's error, not a timeout.
C28_TimeoutOnlyWhenTimerAborted ==
    \A r \in Reqs :
        (scenario = "timeout" /\ tfn[r] = "requestWithTimeout") =>
            /\ outcome[r].kind = "TimeoutError" =>
                  timer[r] = "fired" /\ aborted[r] /\ net[r] = "aborted"
            /\ net[r] = "faulted" => outcome[r].kind = "NetworkError"
            /\ net[r] = "responded" =>
                  /\ timer[r] = "cleared"
                  /\ ~aborted[r]
                  /\ (tpc[r] = "done" /\ ~resp[r].bodyOk) =>
                        outcome[r].kind = "ParseError"

C28_Witness ==
    \E r \in Reqs :
        /\ scenario = "timeout" /\ tfn[r] = "requestWithTimeout"
        /\ net[r] = "responded" /\ tpc[r] = "done"
        /\ timer[r] = "cleared"
        /\ outcome[r] = Out("ParseError", 200)

\* C29: requestWithRetry and requestWithExponentialBackoff called with
\* retries <= 0: the call issues no fetch, starts no wait and resolves with
\* undefined; it never rejects.
C29_NoAttemptsResolvesUndefined ==
    (/\ scenario = "retry"
     /\ rop \in {"requestWithRetry", "requestWithExponentialBackoff"}
     /\ retries <= 0) =>
        /\ trace = <<>>
        /\ rpc \in {"loop", "done"}
        /\ rpc = "loop" => result = NoResult
        /\ rpc = "done" => result = Res("Undefined", 0, "none")

C29_Witness ==
    /\ RetryDone /\ rop = "requestWithExponentialBackoff"
    /\ retries = 0 /\ delay = 500
    /\ trace = <<>>
    /\ result.kind = "Undefined"

\* ------------------------------------------------ the plain request functions
\* The method each function passes to fetch; requestWithHeaders passes its
\* method argument.
MethodOf(fn, method) ==
    IF fn = "getRequest" THEN "GET"
    ELSE IF fn = "postRequest" THEN "POST"
    ELSE IF fn = "putRequest" THEN "PUT"
    ELSE IF fn = "deleteRequest" THEN "DELETE"
    ELSE method

\* The options each function gives to fetch.  getRequest and deleteRequest
\* give the method only; postRequest and putRequest add the JSON content type
\* and body: JSON.stringify(data); requestWithHeaders sets the content type
\* and, if (data), the body.
BuildOptions(fn, method, data) ==
    [method |-> MethodOf(fn, method),
     contentType |-> IF fn \in {"getRequest", "deleteRequest"} THEN "none"
                     ELSE "application/json",
     body |-> fn \notin {"getRequest", "deleteRequest"} /\ data = "object"]

XRes(k, status, body) == [kind |-> k, status |-> status, body |-> body]

\* A plain request function is about to be called with some arguments.
ExecInit ==
    /\ scenario = "execute"
    /\ xfn \in ExecFns
    /\ xmethod \in IF xfn = "requestWithHeaders" THEN ExecMethods ELSE {"none"}
    /\ xdata \in IF xfn \in {"getRequest", "deleteRequest"} THEN {"undefined"} ELSE ExecData
    /\ xpc = "created"
    /\ xopts = NoOptions
    /\ xtrace = <<>>
    /\ xresult = NoExecResult
    /\ RetryIdle
    /\ TimeoutIdle
    /\ PollIdle
    /\ BatchIdle
    /\ UiIdle

\* const response = await fetch(url, options)
ExecCall ==
    /\ scenario = "execute" /\ xpc = "created"
    /\ xopts' = BuildOptions(xfn, xmethod, xdata)
    /\ xtrace' = Append(xtrace, Ev("fetch", 0))
    /\ xpc' = "awaitFetch"
    /\ UNCHANGED <<scenario, xfn, xmethod, xdata, xresult>>
    /\ UNCHANGED notExecVars

\* A variant of ExecResponds without the response.ok test.
ExecRespondsNoOkCheck ==
    /\ scenario = "execute" /\ xpc = "awaitFetch"
    /\ \E status \in Statuses :
        /\ xtrace' = Append(xtrace, Ev("status", status))
        /\ xpc' = "awaitJson"
        /\ xresult' = xresult
    /\ UNCHANGED <<scenario, xfn, xmethod, xdata, xopts>>
    /\ UNCHANGED notExecVars

\* fetch resolved.
\* if (!response.ok) throw new Error(...); return response.json();
ExecResponds ==
    /\ scenario = "execute" /\ xpc = "awaitFetch"
    /\ \E status \in Statuses :
        /\ xtrace' = Append(xtrace, Ev("status", status))
        /\ IF IsOk(status)
           THEN /\ xpc' = "awaitJson"
                /\ xresult' = xresult
           ELSE /\ xpc' = "done"
                /\ xresult' = XRes("HttpStatusError", status, -1)
    /\ UNCHANGED <<scenario, xfn, xmethod, xdata, xopts>>
    /\ UNCHANGED notExecVars

\* fetch rejected with a network fault: nothing catches it.
ExecFaults ==
    /\ scenario = "execute" /\ xpc = "awaitFetch"
    /\ xtrace' = Append(xtrace, Ev("throw", 0))
    /\ xpc' = "done"
    /\ xresult' = XRes("NetworkError", 0, -1)
    /\ UNCHANGED <<scenario, xfn, xmethod, xdata, xopts>>
    /\ UNCHANGED notExecVars

\* response.json() resolved with the parsed body.
ExecBodyParsed ==
    /\ scenario = "execute" /\ xpc = "awaitJson"
    /\ \E body \in Bodies :
        /\ xtrace' = Append(xtrace, Ev("body", body))
        /\ xresult' = XRes("Success", xtrace[Len(xtrace)].n, body)
    /\ xpc' = "done"
    /\ UNCHANGED <<scenario, xfn, xmethod, xdata, xopts>>
    /\ UNCHANGED notExecVars

\* response.json() rejected: the body does not parse.
ExecBodyFails ==
    /\ scenario = "execute" /\ xpc = "awaitJson"
    /\ xtrace' = Append(xtrace, Ev("parsefail", 0))
    /\ xresult' = XRes("ParseError", xtrace[Len(xtrace)].n, -1)
    /\ xpc' = "done"
    /\ UNCHANGED <<scenario, xfn, xmethod, xdata, xopts>>
    /\ UNCHANGED notExecVars

ExecNext ==
    \/ ExecCall
    \/ ExecResponds
    \/ ExecFaults
    \/ ExecBodyParsed
    \/ ExecBodyFails

\* ------------------------------- properties of the plain request functions
XFetchIdx == {i \in DOMAIN xtrace : xtrace[i].ev = "fetch"}

\* C22: one call of a plain request function makes exactly one transport call
\* and ends in exactly one way, decided by that call's answer: a success
\* status ends it as response.json() of that response does (the parsed body),
\* a non-success status with HttpStatusError, a thrown fault with
\* NetworkError; nothing is retried and nothing is waited for.
C22_ExecuteOneCallOneOutcome ==
    scenario = "execute" =>
        /\ Cardinality(XFetchIdx) = (IF xpc = "created" THEN 0 ELSE 1)
        /\ \A i \in DOMAIN xtrace : xtrace[i].ev # "wait"
        /\ xpc # "done" => xresult = NoExecResult
        /\ xpc = "done" =>
              /\ xtrace[1] = Ev("fetch", 0)
              /\ Len(xtrace) \in {2, 3}
              /\ xtrace[2].ev = "throw" =>
                    Len(xtrace) = 2 /\ xresult = XRes("NetworkError", 0, -1)
              /\ (xtrace[2].ev = "status" /\ ~IsOk(xtrace[2].n)) =>
                    Len(xtrace) = 2 /\ xresult = XRes("HttpStatusError", xtrace[2].n, -1)
              /\ (xtrace[2].ev = "status" /\ IsOk(xtrace[2].n)) =>
                    /\ Len(xtrace) = 3
                    /\ xtrace[3].ev = "body" =>
                          xresult = XRes("Success", xtrace[2].n, xtrace[3].n)
                    /\ xtrace[3].ev # "body" =>
                          xresult = XRes("ParseError", xtrace[2].n, -1)
              /\ xtrace[2].ev \in {"throw", "status"}

C22_Witness ==
    /\ scenario = "execute" /\ xpc = "done"
    /\ xfn = "requestWithHeaders" /\ xopts.method = "POST" /\ xopts.body
    /\ xtrace = <<Ev("fetch", 0), Ev("status", 200), Ev("body", 1)>>
    /\ xresult = XRes("Success", 200, 1)

\* ------------------------------------------- Events.once and Otechdo.once
\* The elements the instance is bound to: this.elements, or this.element.
Els == 1..oels

\* on(event, handler): el.addEventListener(event, handler) for each element.
On(ls, els) == ls \cup els

\* A variant of Off that removes the handler from the first element only.
OffFirstElementOnly(ls, els) == ls \ {1}

\* off(event, handler): el.removeEventListener(event, handler) for each element.
Off(ls, els) == ls \ els

\* One dispatch of the event on element el.  When the one-time handler is
\* registered on el it runs: callback(e), then this.off(event, handler)
\* (Otechdo.once: handler(e), then this.element.removeEventListener).
DispatchOn(st, el) ==
    IF el \in st.ls
    THEN [ls |-> Off(st.ls, Els), called |-> Append(st.called, st.n + 1), n |-> st.n + 1]
    ELSE [st EXCEPT !.n = st.n + 1]

\* trigger: this.elements.forEach(el => el.dispatchEvent(event)), from element k on.
RECURSIVE TriggerFrom(_, _)
TriggerFrom(st, k) ==
    IF k > oels THEN st ELSE TriggerFrom(DispatchOn(st, k), k + 1)

OnceState == [ls |-> olisteners, called |-> ocalled, n |-> odispatches]

\* An instance bound to some elements; once has not been called yet.
OnceInit ==
    /\ scenario = "once"
    /\ oapi \in OnceApis
    /\ oels \in IF oapi = "Events.once" THEN 1..MaxEls ELSE {1}
    /\ opc = "created"
    /\ olisteners = {}
    /\ odispatches = 0
    /\ oregAt = 0
    /\ ocalled = <<>>
    /\ RetryIdle
    /\ TimeoutIdle
    /\ PollIdle
    /\ BatchIdle
    /\ ExecIdle
    /\ SysIdle
    /\ DebounceIdle

\* once(event, callback): this.on(event, handler)
OnceRegister ==
    /\ scenario = "once" /\ opc = "created"
    /\ olisteners' = On(olisteners, Els)
    /\ oregAt' = odispatches
    /\ opc' = "registered"
    /\ UNCHANGED <<scenario, oapi, oels, odispatches, ocalled>>
    /\ UNCHANGED notOnceVars

\* The event is dispatched on one of the elements (a click, say).
OnceDispatch(el) ==
    /\ scenario = "once" /\ opc \in {"created", "registered"}
    /\ odispatches < MaxDispatch
    /\ LET st == DispatchOn(OnceState, el)
       IN  /\ olisteners' = st.ls
           /\ ocalled' = st.called
           /\ odispatches' = st.n
    /\ UNCHANGED <<scenario, oapi, oels, opc, oregAt>>
    /\ UNCHANGED notOnceVars

\* Events.trigger(event): the event is dispatched on every element in turn.
OnceTrigger ==
    /\ scenario = "once" /\ oapi = "Events.once" /\ opc \in {"created", "registered"}
    /\ odispatches + oels <= MaxDispatch
    /\ LET st == TriggerFrom(OnceState, 1)
       IN  /\ olisteners' = st.ls
           /\ ocalled' = st.called
           /\ odispatches' = st.n
    /\ UNCHANGED <<scenario, oapi, oels, opc, oregAt>>
    /\ UNCHANGED notOnceVars

OnceNext ==
    \/ OnceRegister
    \/ OnceTrigger
    \/ \E el \in Els : OnceDispatch(el)

SysInit ==
    /\ scenario = "system"
    /\ SysIdle
    /\ RetryIdle
    /\ TimeoutIdle
    /\ PollIdle
    /\ BatchIdle
    /\ ExecIdle
    /\ OnceIdle
    /\ DebounceIdle

\* addSystemEvent(event, callback):
\* this.listeners[event] = callback; window.addEventListener(event, callback)
AddSystemEvent(e, c) ==
    /\ scenario = "system"
    /\ slisteners' = [slisteners EXCEPT ![e] = c]
    /\ wlisteners' = wlisteners \cup {<<e, c>>}
    /\ sremoved' = [sremoved EXCEPT ![e] = FALSE]
    /\ slast' = NoDispatch
    /\ UNCHANGED scenario
    /\ UNCHANGED notSysVars

\* removeSystemEvent(event): const callback = this.listeners[event];
\* if (callback) { window.removeEventListener(event, callback);
\*                 delete this.listeners[event]; }
RemoveSystemEvent(e) ==
    /\ scenario = "system"
    /\ LET callback == slisteners[e]
       IN  IF callback # "none"
           THEN /\ wlisteners' = wlisteners \ {<<e, callback>>}
                /\ slisteners' = [slisteners EXCEPT ![e] = "none"]
           ELSE UNCHANGED <<wlisteners, slisteners>>
    /\ sremoved' = [sremoved EXCEPT ![e] = TRUE]
    /\ slast' = NoDispatch
    /\ UNCHANGED scenario
    /\ UNCHANGED notSysVars

\* The event is dispatched on the window: every listener registered for it runs.
SysDispatch(e) ==
    /\ scenario = "system"
    /\ slast' = [ev |-> e, called |-> {c \in Callbacks : <<e, c>> \in wlisteners}]
    /\ UNCHANGED <<scenario, slisteners, wlisteners, sremoved>>
    /\ UNCHANGED notSysVars

SysNext ==
    \E e \in SysEvents :
        \/ \E c \in Callbacks : AddSystemEvent(e, c)
        \/ RemoveSystemEvent(e)
        \/ SysDispatch(e)

\* C24: desktop Events: when removeSystemEvent(e) was the last call made for
\* event e, whatever addSystemEvent / removeSystemEvent calls came before it,
\* a dispatch of e on the window invokes none of the callbacks given to
\* addSystemEvent(e, ...).
C24_RemovedEventInvokesNothing ==
    (scenario = "system" /\ slast.ev # "none") =>
        (sremoved[slast.ev] => slast.called = {})

\* --------------------------------------------------------- Otechdo.debounce
\* A variant of ClearTimeout that cancels nothing.
ClearTimeoutNoop(pending, id) == pending

\* clearTimeout(timeoutId): the timer with that id is no longer pending;
\* undefined or the id of a timer that has fired cancels nothing.
ClearTimeout(pending, id) == pending \ {id}

\* An Otechdo instance on which debounce is about to be called.
DebounceInit ==
    /\ scenario = "debounce"
    /\ dpc = "created"
    /\ dtimeoutId = 0
    /\ dpending = {}
    /\ devents = 0
    /\ dcalls = <<>>
    /\ RetryIdle
    /\ TimeoutIdle
    /\ PollIdle
    /\ BatchIdle
    /\ ExecIdle
    /\ OnceIdle
    /\ SysIdle

\* debounce(event, handler, delay): let timeoutId; addEventListener(event, debouncedHandler)
DebounceRegister ==
    /\ scenario = "debounce" /\ dpc = "created"
    /\ dpc' = "registered"
    /\ UNCHANGED <<scenario, dtimeoutId, dpending, devents, dcalls>>
    /\ UNCHANGED notDebounceVars

\* The event is dispatched: debouncedHandler(e) runs.
\* clearTimeout(timeoutId); timeoutId = window.setTimeout(() => handler(e), delay)
\* The new timer is identified by the number of the event it captures.
DebounceEvent ==
    /\ scenario = "debounce" /\ dpc = "registered"
    /\ devents < MaxEvents
    /\ devents' = devents + 1
    /\ dpending' = ClearTimeout(dpending, dtimeoutId) \cup {devents + 1}
    /\ dtimeoutId' = devents + 1
    /\ UNCHANGED <<scenario, dpc, dcalls>>
    /\ UNCHANGED notDebounceVars

\* The delay of pending timer t has elapsed: () => handler(e) runs.
DebounceTimerFires(t) ==
    /\ scenario = "debounce" /\ t \in dpending
    /\ dpending' = dpending \ {t}
    /\ dcalls' = Append(dcalls, [ev |-> t, seen |-> devents])
    /\ UNCHANGED <<scenario, dpc, dtimeoutId, devents>>
    /\ UNCHANGED notDebounceVars

DebounceNext ==
    \/ DebounceRegister
    \/ DebounceEvent
    \/ \E t \in 1..MaxEvents : DebounceTimerFires(t)

\* C30: debounce: whatever the order of events and timer expiries, at most one
\* timer is pending and it is the one set by the latest event (every event
\* cancels the timer before it); the handler runs only with the latest event,
\* when no event followed it before its delay elapsed, and at most once for it.
C30_DebounceRunsOncePerBurst ==
    scenario = "debounce" =>
        /\ Cardinality(dpending) <= 1
        /\ dpending \subseteq {devents}
        /\ \A k \in DOMAIN dcalls :
              /\ dcalls[k].ev = dcalls[k].seen
              /\ \A l \in DOMAIN dcalls : k < l => dcalls[k].ev < dcalls[l].ev
              /\ dcalls[k].ev \notin dpending

C30_Witness ==
    /\ scenario = "debounce" /\ devents = 3
    /\ dpending = {}
    /\ dcalls = <<[ev |-> 2, seen |-> 2], [ev |-> 3, seen |-> 3]>>

\* One scenario per behaviour: a retry call, timeout-guarded and cancelable
\* requests, a poll, a batch, a plain request, a registration with once, a
\* desktop Events instance, or a debounced registration.
Init ==
    \/ RetryInit \/ TimeoutInit \/ PollInit \/ BatchInit \/ ExecInit
    \/ OnceInit \/ SysInit \/ DebounceInit
Next ==
    \/ RetryNext \/ TimeoutNext \/ PollNext \/ BatchNext \/ ExecNext
    \/ OnceNext \/ SysNext \/ DebounceNext
Spec == Init /\ [][Next]_vars
====
